---------------------------- MODULE Spec2Model ----------------------------
(***************************************************************************)
(* Doodozer: resolution of a DoodStream embed page into a direct media URL *)
(* (DoodStreamAPI.get_download_url) and the streaming download of that URL *)
(* to a local file (Doodozer.download / Doodozer._download_file), and the  *)
(* command line that validates its URLs and downloads them in turn (main). *)
(*                                                                         *)
(* Strings are sequences of one-character strings, byte strings are        *)
(* sequences of small naturals.  Two downloads run as coroutines of one    *)
(* event loop; an action is the code between two suspension points.        *)
(***************************************************************************)
EXTENDS Integers, Sequences, FiniteSets, TLC

\* Python's None where the other values are strings
None == "None"

\* Python's None where the other values are sequences: an optional value is
\* the empty tuple (None) or the one-tuple of the value.
Nothing == <<>>
Some(x) == <<x>>

\* The two concurrently running Doodozer instances.
Procs == {"d1", "d2"}

\* At most this many chunks are delivered by one media response.
MaxChunks == 2

-----------------------------------------------------------------------------
(* Strings *)

RECURSIVE Concat(_)
Concat(ss) == IF ss = <<>> THEN <<>> ELSE Head(ss) \o Concat(Tail(ss))

\* s[i..] starts with lit
StartsAt(s, i, lit) ==
    /\ i >= 1
    /\ i + Len(lit) - 1 <= Len(s)
    /\ \A k \in 1..Len(lit) : s[i + k - 1] = lit[k]

\* str.replace(old, new): every non-overlapping occurrence, left to right.
RECURSIVE ReplaceAll(_, _, _)
ReplaceAll(s, old, new) ==
    IF s = <<>> THEN <<>>
    ELSE IF StartsAt(s, 1, old)
         THEN new \o ReplaceAll(SubSeq(s, Len(old) + 1, Len(s)), old, new)
         ELSE <<Head(s)>> \o ReplaceAll(Tail(s), old, new)

\* Index of the first occurrence of lit in s at or after i, 0 when there is none.
Find(s, lit, i) ==
    LET hits == {k \in i..Len(s) : StartsAt(s, k, lit)}
    IN  IF hits = {} THEN 0 ELSE CHOOSE k \in hits : \A j \in hits : k <= j

\* Index of the last occurrence of the character c in s, 0 when there is none.
LastIndexOf(s, c) ==
    LET hits == {k \in 1..Len(s) : s[k] = c}
    IN  IF hits = {} THEN 0 ELSE CHOOSE k \in hits : \A j \in hits : k >= j

RECURSIVE FilterOut(_, _)
FilterOut(s, bad) ==
    IF s = <<>> THEN <<>>
    ELSE IF Head(s) \in bad THEN FilterOut(Tail(s), bad)
         ELSE <<Head(s)>> \o FilterOut(Tail(s), bad)

Whitespace == {" ", "\n", "\t", "\r"}

\* str.strip()
Strip(s) ==
    LET keep == {k \in 1..Len(s) : s[k] \notin Whitespace}
    IN  IF keep = {} THEN <<>>
        ELSE SubSeq(s, CHOOSE k \in keep : \A j \in keep : k <= j,
                       CHOOSE k \in keep : \A j \in keep : k >= j)

DigitChar == <<"0", "1", "2", "3", "4", "5", "6", "7", "8", "9">>

\* str(n) of a non-negative integer
RECURSIVE Decimal(_)
Decimal(n) ==
    IF n < 10 THEN <<DigitChar[n + 1]>>
    ELSE Decimal(n \div 10) \o <<DigitChar[(n % 10) + 1]>>


-----------------------------------------------------------------------------
(* DoodStreamAPI.get_download_url: the pure steps *)

ViewSegment == <<"/", "d", "/">>
EmbedSegment == <<"/", "e", "/">>

\* embed_url = url.replace('/d/', '/e/')
EmbedUrl(u) == ReplaceAll(u, ViewSegment, EmbedSegment)

Letters ==
    {"A", "B", "C", "D", "E", "F", "G", "H", "I", "J", "K", "L", "M", "N",
     "O", "P", "Q", "R", "S", "T", "U", "V", "W", "X", "Y", "Z", "a", "b",
     "c", "d", "e", "f", "g", "h", "i", "j", "k", "l", "m", "n", "o", "p",
     "q", "r", "s", "t", "u", "v", "w", "x", "y", "z"}

\* urllib.parse.scheme_chars
SchemeChars == Letters \cup {DigitChar[i] : i \in 1..10} \cup {"+", "-", "."}

\* urlparse(u): the index of the ':' that ends the scheme, 0 when u has no
\* scheme (no ':', nothing before it, a first character that is no letter, or
\* a character before it that no scheme has).
SchemeEnd(u) ==
    LET i == Find(u, <<":">>, 1)
    IN  IF i > 1 /\ u[1] \in Letters /\ \A k \in 1..(i - 1) : u[k] \in SchemeChars
        THEN i ELSE 0

\* urlparse(u).netloc: when "//" follows the scheme, what follows it up to
\* the next '/', '?' or '#'; empty otherwise.
Netloc(u) ==
    LET i == SchemeEnd(u) + 1
        stops == {k \in (i + 2)..Len(u) : u[k] \in {"/", "?", "#"}}
        stop == IF stops = {} THEN Len(u) + 1
                ELSE CHOOSE k \in stops : \A j \in stops : k <= j
    IN  IF StartsAt(u, i, <<"/", "/">>) THEN SubSeq(u, i + 2, stop - 1) ELSE <<>>

PassMd5Literal == <<"/", "p", "a", "s", "s", "_", "m", "d", "5", "/">>
Quotes == {"\"", "'"}

\* A character class that stops at the double quote only.
PassMd5SearchDoubleQuote(html) ==
    LET n == Len(PassMd5Literal)
        hits == {k \in 1..Len(html) :
                    /\ StartsAt(html, k, PassMd5Literal)
                    /\ k + n <= Len(html)
                    /\ html[k + n] # "\""}
        at == CHOOSE k \in hits : \A j \in hits : k <= j
        stops == {k \in (at + n)..Len(html) : html[k] = "\""}
        stop == IF stops = {} THEN Len(html) + 1
                ELSE CHOOSE k \in stops : \A j \in stops : k <= j
    IN  IF hits = {} THEN Nothing ELSE Some(SubSeq(html, at + n, stop - 1))

\* re.search(r'/pass_md5/([^"\']+)', html): group 1 of the leftmost match,
\* Nothing when nothing matches.  The group is the longest run of non-quote
\* characters after the literal and has at least one character.
PassMd5Search(html) ==
    LET n == Len(PassMd5Literal)
        hits == {k \in 1..Len(html) :
                    /\ StartsAt(html, k, PassMd5Literal)
                    /\ k + n <= Len(html)
                    /\ html[k + n] \notin Quotes}
        at == CHOOSE k \in hits : \A j \in hits : k <= j
        stops == {k \in (at + n)..Len(html) : html[k] \in Quotes}
        stop == IF stops = {} THEN Len(html) + 1
                ELSE CHOOSE k \in stops : \A j \in stops : k <= j
    IN  IF hits = {} THEN Nothing ELSE Some(SubSeq(html, at + n, stop - 1))

\* pass_md5_url = f"https://{domain}/pass_md5/{pass_md5_path}"
PassMd5Url(domain, path) == <<"h", "t", "t", "p", "s", ":", "/", "/">> \o domain \o PassMd5Literal \o path

\* token = pass_md5_path.split('/')[-1]
LastSegment(path) == SubSeq(path, LastIndexOf(path, "/") + 1, Len(path))

\* k of random.choices(..., k=10)
SuffixLen == 10

\* Draws of random.choices over the 62 alphanumerics: the model takes these.
RandomChoices ==
    {[i \in 1..SuffixLen |-> "A"],
     [i \in 1..SuffixLen |-> IF i % 2 = 1 THEN "z" ELSE "9"]}

\* Readings of time.time(), in tenths of a second.
ClockSamples == {9, 125}

\* int(t) of a clock reading
IntOfTime(tenths) == tenths \div 10

\* media_url_base = await md5_response.text(): the body as received
MediaUrlBase(body) == body

\* final_url = f"{media_url_base}{random_chars}?token={token}&expiry={int(time.time())}"
FinalUrl(base, rnd, token, tenths) ==
    base \o rnd \o <<"?", "t", "o", "k", "e", "n", "=">> \o token \o <<"&", "e", "x", "p", "i", "r", "y", "=">> \o Decimal(IntOfTime(tenths))

TitleOpen == <<"<", "t", "i", "t", "l", "e", ">">>
TitleClose == <<"<", "/", "t", "i", "t", "l", "e", ">">>

\* soup.find("title"): the text of the first title element, Nothing without one.
TitleTag(html) ==
    LET i == Find(html, TitleOpen, 1)
        from == i + Len(TitleOpen)
        j == IF i = 0 THEN 0 ELSE Find(html, TitleClose, from)
    IN  IF i = 0 THEN Nothing
        ELSE Some(SubSeq(html, from, IF j = 0 THEN Len(html) ELSE j - 1))

IllegalChars == {"\\", "/", "*", "?", ":", "\"", "<", ">", "|"}

\* A character class that misses the question mark.
KeepQuestionMark(t) == FilterOut(t, IllegalChars \ {"?"})

\* title = re.sub(r'[\\/*?:"<>|]', "", title)
Sanitize(t) == FilterOut(t, IllegalChars)

\* title = title_tag.text.strip() if title_tag else token, then sanitized
Title(html, token) ==
    Sanitize(IF TitleTag(html) = Nothing THEN token ELSE Strip(TitleTag(html)[1]))

-----------------------------------------------------------------------------
(* What the network serves *)

UrlView == <<"h", "t", "t", "p", "s", ":", "/", "/", "h", "/", "d", "/", "1">>
UrlEmbed == <<"h", "t", "t", "p", "s", ":", "/", "/", "h", "/", "e", "/", "2">>

\* A view URL whose identifier starts with the view segment's letter
UrlNested == <<"h", "t", "t", "p", "s", ":", "/", "/", "h", "/", "d", "/", "d", "/", "3">>

\* Values of self.url
UrlSamples == {UrlView, UrlEmbed, UrlNested}

\* self.url of each of two instances that run together
UrlOf == [p \in Procs |-> IF p = "d1" THEN UrlView ELSE UrlEmbed]

PageFull == <<"<", "t", "i", "t", "l", "e", ">", " ", "a", "/", "b", " ", "<", "/", "t", "i", "t", "l", "e", ">", "\"", "/", "p", "a", "s", "s", "_", "m", "d", "5", "/", "p", "/", "k", "\"">>
PageNoTitle == <<"'", "/", "p", "a", "s", "s", "_", "m", "d", "5", "/", "q", "?", "'">>
PageNoToken == <<"<", "t", "i", "t", "l", "e", ">", "a", "<", "/", "t", "i", "t", "l", "e", ">">>
PageEmptyPath == <<"\"", "/", "p", "a", "s", "s", "_", "m", "d", "5", "/", "\"">>

PageSamples == {PageFull, PageNoTitle, PageNoToken, PageEmptyPath}

\* A page whose first /pass_md5/ is followed by a quote at once and whose
\* second one carries a path; its title element is empty.
PageSecond == <<"\"", "/", "p", "a", "s", "s", "_", "m", "d", "5", "/", "\"", "'", "/", "p", "a", "s", "s", "_", "m", "d", "5", "/", "x", "/", "y", "'", "<", "t", "i", "t", "l", "e", ">", "<", "/", "t", "i", "t", "l", "e", ">">>

\* A page that ends within the path: no quote follows it.
PageOpenEnd == <<"'", "/", "p", "a", "s", "s", "_", "m", "d", "5", "/", "z">>

\* The pages the host may answer a GET of embed_url with
PagesAt(embed_url) ==
    IF embed_url = EmbedUrl(UrlNested) THEN {PageSecond, PageOpenEnd} ELSE PageSamples

Md5BodySamples == {<<"h", "t", "t", "p", ":", "/", "/", "c", "/">>, <<"h", "t", "t", "p", ":", "/", "/", "c", "/", "\n">>}

\* Ways a GET of the resolution fails: no connection, a non-2xx status
\* (raise_for_status), a body that cannot be decoded (text()).
FetchFailures == {"transport", "status", "decode"}

\* The first two are aiohttp.ClientError, the last is another Exception.
IsClientError(failure) == failure \in {"transport", "status", "stream"}

\* Chunks a media response delivers (response.content.iter_chunked).
ChunkSamples == {<<1>>, <<2, 3>>}

-----------------------------------------------------------------------------
(* The file system: a function from the paths that exist to what is there *)

Dir == [kind |-> "dir"]
File(ino, data) == [kind |-> "file", ino |-> ino, data |-> data]

\* The working directory
Cwd == <<".">>

\* The entry a relative path names: leading "./" and trailing "/" dropped,
\* the working directory when nothing is left.
RECURSIVE Resolve(_)
Resolve(path) ==
    IF StartsAt(path, 1, <<".", "/">>) THEN Resolve(SubSeq(path, 3, Len(path)))
    ELSE IF path # <<>> /\ path[Len(path)] = "/"
         THEN Resolve(SubSeq(path, 1, Len(path) - 1))
         ELSE IF path = <<>> THEN Cwd ELSE path

\* os.path.exists(path)
Exists(f, path) == path # <<>> /\ (Resolve(path) = Cwd \/ Resolve(path) \in DOMAIN f)

\* os.path.isdir(path)
IsDir(f, path) ==
    /\ path # <<>>
    /\ \/ Resolve(path) = Cwd
       \/ Resolve(path) \in DOMAIN f /\ f[Resolve(path)].kind = "dir"

\* open(path, "wb") can succeed: path names no directory
CanOpen(f, path) == path # <<>> /\ path[Len(path)] # "/" /\ ~IsDir(f, path)

\* os.path.join(dir, name), name relative
Join(dir, name) ==
    IF dir # <<>> /\ dir[Len(dir)] = "/" THEN dir \o name
    ELSE dir \o <<"/">> \o name

Mp4 == <<".", "m", "p", "4">>

\* Doodozer.download: the choice of final_path
FinalPath(f, output_path, title) ==
    IF output_path # Nothing /\ output_path[1] # <<>>
    THEN IF IsDir(f, output_path[1]) THEN Join(output_path[1], title \o Mp4)
         ELSE output_path[1]
    ELSE title \o Mp4

\* Mode "ab" instead of "wb": what is there is kept.
OpenAppend(f, path, p) ==
    IF Exists(f, path) THEN f ELSE (Resolve(path) :> File(p, <<>>)) @@ f

\* aiofiles.open(path, "wb"): the file at path is truncated, or created.
OpenWb(f, path, p) ==
    IF Exists(f, path) THEN [f EXCEPT ![Resolve(path)].data = <<>>]
    ELSE (Resolve(path) :> File(p, <<>>)) @@ f

\* A write of chunk at position pos of a file holding data (holes read 0).
WriteAt(data, pos, chunk) ==
    LET n == IF Len(data) > pos + Len(chunk) THEN Len(data) ELSE pos + Len(chunk)
    IN  [i \in 1..n |->
            IF i > pos /\ i <= pos + Len(chunk) THEN chunk[i - pos]
            ELSE IF i <= Len(data) THEN data[i] ELSE 0]

\* f.write(chunk) through a handle [ino, pos] opened at path: the bytes reach
\* the file the handle was opened on, which may no longer be linked at path.
WriteChunkTo(f, path, h, chunk) ==
    IF Exists(f, path) /\ f[Resolve(path)].kind = "file" /\ f[Resolve(path)].ino = h.ino
    THEN [f EXCEPT ![Resolve(path)].data = WriteAt(@, h.pos, chunk)]
    ELSE f

\* An os.remove that takes every file with it.
RemoveAll(f, path) == [q \in {r \in DOMAIN f : f[r].kind = "dir"} |-> f[q]]

\* os.remove(path), succeeding
Remove(f, path) == [q \in DOMAIN f \ {Resolve(path)} |-> f[q]]

\* An except branch that forgets the removal.
NoCleanup(f, path) == {[fs |-> f, failed |-> FALSE]}

\* if os.path.exists(path): os.remove(path) -- the file system afterwards and
\* whether os.remove raised (a directory cannot be removed; a file may not be).
Cleanup(f, path) ==
    IF ~Exists(f, path) THEN {[fs |-> f, failed |-> FALSE]}
    ELSE IF IsDir(f, path) THEN {[fs |-> f, failed |-> TRUE]}
    ELSE {[fs |-> Remove(f, path), failed |-> FALSE], [fs |-> f, failed |-> TRUE]}

\* A context manager that does not release on exit.
KeepOpen(n) == n

\* __aexit__ of "async with": the response, or the file, is released.
Release(n) == n - 1

\* Values of the Content-Length header the media response carries; an
\* absent header reads as 0 (response.headers.get("Content-Length", 0)).
ContentLengthSamples == {0, 3}

\* progress_bar = None, or tqdm(total=total_size, ...) when show_progress is set
NewProgressBar(show_progress, total_size) ==
    IF show_progress
    THEN Some([total |-> total_size, n |-> 0, updates |-> 0, closed |-> FALSE])
    ELSE Nothing

\* "if progress_bar:" -- None is false, and a tqdm object is true only when
\* its total is above 0 (tqdm.__bool__ returns total > 0 when total is set).
BarTruthy(bar) == bar # Nothing /\ bar[1].total > 0

\* if progress_bar: progress_bar.update(len(chunk))
UpdateBar(bar, chunk) ==
    IF BarTruthy(bar)
    THEN Some([bar[1] EXCEPT !.n = @ + Len(chunk), !.updates = @ + 1])
    ELSE bar

\* if progress_bar: progress_bar.close()
CloseBar(bar) ==
    IF BarTruthy(bar) THEN Some([bar[1] EXCEPT !.closed = TRUE]) ELSE bar

OutDir == <<"o">>
OutFile == <<"f">>
OldData == <<9, 9, 9>>

\* self.output_path of an instance
OutputPathSamples == {Nothing, Some(OutDir), Some(OutFile)}

FsEmpty == <<>>
FsUsed ==
    (OutDir :> Dir) @@ (OutFile :> File("old", OldData))
    @@ (<<"a", "b", ".", "m", "p", "4">> :> File("old", OldData))

\* The file system when the downloads start
FsSamples == {FsEmpty, FsUsed}

-----------------------------------------------------------------------------
(* main: the pure steps *)

\* str.split(sep) for a one-character sep
RECURSIVE Split(_, _)
Split(s, sep) ==
    LET k == Find(s, <<sep>>, 1)
    IN  IF k = 0 THEN <<s>>
        ELSE <<SubSeq(s, 1, k - 1)>> \o Split(SubSeq(s, k + 1, Len(s)), sep)

\* urls = [url.strip() for url in args.url.split(",")]
Urls(arg) == LET parts == Split(arg, ",") IN [i \in 1..Len(parts) |-> Strip(parts[i])]

\* A check that asks for a scheme only.
SchemeOnly(u) == SchemeEnd(u) > 0

\* is_valid_url(url): all([result.scheme, result.netloc])
IsValidUrl(u) == SchemeEnd(u) > 0 /\ Netloc(u) # <<>>

\* "lit in url"
Contains(u, lit) == Find(u, lit, 1) > 0

\* The condition of line 68, negated: the entry goes to valid_urls
Accepts(u) ==
    ~(~IsValidUrl(u) \/ (~Contains(u, EmbedSegment) /\ ~Contains(u, ViewSegment)))

\* valid_urls after the loop of lines 66-71
ValidUrls(arg) == SelectSeq(Urls(arg), Accepts)

\* The entries the loop warns about
IgnoredUrls(arg) == {Urls(arg)[i] : i \in {k \in 1..Len(Urls(arg)) : ~Accepts(Urls(arg)[k])}}

\* args.output_path.endswith(c)
EndsWith(s, c) == s # <<>> /\ s[Len(s)] = c

\* The condition of line 80
WantsDirectory(valid_urls, output_path) ==
    /\ Len(valid_urls) > 1
    /\ output_path # Nothing /\ output_path[1] # <<>>
    /\ ~EndsWith(output_path[1], "/")
    /\ ~EndsWith(output_path[1], "\\")

\* os.makedirs(path) where path is no directory: it raises when something
\* is at path, and creates the directory otherwise.
MakeDirsRaises(f, path) == Exists(f, path)
MakeDirs(f, path) == (Resolve(path) :> Dir) @@ f

\* os.path.dirname(path)
Dirname(path) ==
    LET k == LastIndexOf(path, "/")
    IN  IF k = 0 THEN <<>> ELSE IF k = 1 THEN <<"/">> ELSE SubSeq(path, 1, k - 1)

\* lines 93-101: current_output_path, when evaluating it raises nothing
CurrentOutputPath(f, valid_urls, output_path) ==
    IF Len(valid_urls) > 1
    THEN IF output_path # Nothing /\ output_path[1] # <<>>
         THEN IF IsDir(f, output_path[1]) THEN output_path
              ELSE IF Dirname(output_path[1]) # <<>> THEN Some(Dirname(output_path[1]))
                   ELSE Some(Cwd)
         ELSE Some(Cwd)
    ELSE output_path

\* "import os" of line 81 makes os a local name of main: line 94 reads it
\* when there are several URLs and an output path, and raises
\* UnboundLocalError when line 81 did not run.
ReadsUnboundOs(valid_urls, output_path, os_bound) ==
    /\ Len(valid_urls) > 1
    /\ output_path # Nothing /\ output_path[1] # <<>>
    /\ ~os_bound

\* Values of the URL argument: one URL; two URLs with a blank after the
\* comma; an entry without scheme before a URL; an entry without host and a
\* URL with neither segment.
ArgOne == <<"h", "t", "t", "p", "s", ":", "/", "/", "h", "/", "d", "/", "1">>
ArgTwo == <<"h", "t", "t", "p", "s", ":", "/", "/", "h", "/", "d", "/", "1", ",", " ", "h", "t", "t", "p", "s", ":", "/", "/", "h", "/", "e", "/", "2">>
ArgMixed == <<"h", "/", "d", "/", "1", ",", "h", "t", "t", "p", "s", ":", "/", "/", "h", "/", "e", "/", "2">>
ArgNoneValid == <<"h", "t", "t", "p", "s", ":", "/", "d", "/", "1", ",", "h", "t", "t", "p", "s", ":", "/", "/", "h", "/", "x">>
ArgUrlSamples == {ArgOne, ArgTwo, ArgMixed, ArgNoneValid}

\* Values of -o: absent, a name, a name with a trailing separator, a file name
ArgOutputSamples == {Nothing, Some(OutDir), Some(OutDir \o <<"/">>), Some(OutFile)}

-----------------------------------------------------------------------------
(* State *)

VARIABLES
    pc,            \* where each download() coroutine is suspended
    url,           \* self.url
    outputPath,    \* self.output_path
    sessionOpen,   \* the aiohttp.ClientSession of download() is open
    requests,      \* the GETs issued so far, with how each ended
    html,          \* html_content
    passMd5Path,   \* pass_md5_path
    md5Body,       \* the body of the pass_md5 response
    mediaUrlBase,  \* media_url_base
    randomChars,   \* random_chars
    clock,         \* the reading of time.time()
    result,        \* what get_download_url returned: Nothing or <<final_url, title>>
    resCause,      \* why the resolution failed, "none" while it has not
    finalPath,     \* final_path
    showProgress,  \* self.show_progress
    progressBar,   \* progress_bar: Nothing or Some([total, n, updates, closed])
    respOpen,      \* open media response streams
    fileOpen,      \* open destination file handles
    handle,        \* the open file: Some([ino, pos])
    received,      \* the chunks iter_chunked has yielded (forgotten when the
                   \* transfer fails)
    nWritten,      \* how many of them f.write has written
    dlError,       \* the error caught in _download_file, None without one
    removeFailed,  \* os.remove raised in the except branch
    raised,        \* the exception leaving _download_file, None without one
    logged,        \* the messages logged
    ret,           \* how download() ended
    fs,            \* the file system
    cliPc,         \* where main() is: "off" when the downloads run without it
    argsUrl,       \* args.url
    argsOutputPath,\* args.output_path
    argsNoProgress,\* args.no_progress
    validUrls,     \* valid_urls
    item,          \* i of the loop over valid_urls
    osBound,       \* the local name os of main is bound ("import os" ran)
    attempts,      \* the download() calls main has awaited to their end
    cliLogged      \* the messages main logged

resolveVars == <<html, passMd5Path, md5Body, mediaUrlBase, randomChars, clock, result, resCause>>
transferVars == <<finalPath, showProgress, progressBar, respOpen, fileOpen, handle, received, nWritten, dlError,
                  removeFailed, raised, fs>>
cliVars == <<cliPc, argsUrl, argsOutputPath, argsNoProgress, validUrls, item, osBound,
             attempts, cliLogged>>
vars == <<pc, url, outputPath, sessionOpen, requests, resolveVars, transferVars, logged, ret,
          cliVars>>

\* Everything but pc, before download() is called
Fresh ==
    /\ outputPath \in [Procs -> OutputPathSamples]
    /\ sessionOpen = [p \in Procs |-> FALSE]
    /\ requests = [p \in Procs |-> <<>>]
    /\ html = [p \in Procs |-> Nothing]
    /\ passMd5Path = [p \in Procs |-> Nothing]
    /\ md5Body = [p \in Procs |-> Nothing]
    /\ mediaUrlBase = [p \in Procs |-> Nothing]
    /\ randomChars = [p \in Procs |-> Nothing]
    /\ clock = [p \in Procs |-> 0]
    /\ result = [p \in Procs |-> Nothing]
    /\ resCause = [p \in Procs |-> "none"]
    /\ finalPath = [p \in Procs |-> Nothing]
    /\ progressBar = [p \in Procs |-> Nothing]
    /\ respOpen = [p \in Procs |-> 0]
    /\ fileOpen = [p \in Procs |-> 0]
    /\ handle = [p \in Procs |-> Nothing]
    /\ received = [p \in Procs |-> <<>>]
    /\ nWritten = [p \in Procs |-> 0]
    /\ dlError = [p \in Procs |-> None]
    /\ removeFailed = [p \in Procs |-> FALSE]
    /\ raised = [p \in Procs |-> None]
    /\ logged = [p \in Procs |-> {}]
    /\ ret = [p \in Procs |-> "running"]
    /\ fs \in FsSamples
    /\ validUrls = <<>>
    /\ item = 0
    /\ osBound = FALSE
    /\ attempts = <<>>
    /\ cliLogged = {}

\* The instances are used without main()
NoCli ==
    /\ cliPc = "off"
    /\ argsUrl = <<>>
    /\ argsOutputPath = Nothing
    /\ argsNoProgress = FALSE

\* One instance runs download(), the other is never used.
Init ==
    /\ Fresh
    /\ NoCli
    /\ \E p \in Procs :
        /\ pc = [q \in Procs |-> IF q = p THEN "start" ELSE "unused"]
        /\ \A q \in Procs \ {p} : outputPath[q] = Nothing
        /\ \E u \in UrlSamples : url = [q \in Procs |-> IF q = p THEN u ELSE UrlOf[q]]
        /\ \E b \in BOOLEAN : showProgress = [q \in Procs |-> q = p /\ b]

\* Both instances run download() concurrently (asyncio.gather), without a
\* progress bar, on a file system that holds a directory, files that are in
\* the way and free paths.
InitPair ==
    /\ Fresh
    /\ NoCli
    /\ fs = FsUsed
    /\ showProgress = [p \in Procs |-> FALSE]
    /\ url = UrlOf
    /\ pc = [p \in Procs |-> "start"]

\* main() is called: no instance exists yet
InitCli ==
    /\ Fresh
    /\ pc = [p \in Procs |-> "unused"]
    /\ url = UrlOf
    /\ outputPath = [p \in Procs |-> Nothing]
    /\ showProgress = [p \in Procs |-> FALSE]
    /\ cliPc = "start"
    /\ argsUrl \in ArgUrlSamples
    /\ argsOutputPath \in ArgOutputSamples
    /\ argsNoProgress \in BOOLEAN

-----------------------------------------------------------------------------
(* DoodStreamAPI.get_download_url *)

\* A failed GET that is issued again.
RetryFetch(at) == at

\* except aiohttp.ClientError / except Exception: log, fall through to return
AfterFetchError(at) == "resolved"

\* A failure that hands back what was gathered so far.
PartialResult == <<<<>>, <<"k">>>>

\* return None
ResolutionFailed == Nothing

\* The message of the except branch taken
FetchErrorLog(failure) ==
    IF IsClientError(failure) THEN "request_error" ELSE "processing_error"

\* lines 60-76 and, on an error, 98-103: the GET of the embed page and the
\* search for the pass_md5 path in it
EmbedGet(p) ==
    /\ pc[p] = "start"
    /\ sessionOpen' = [sessionOpen EXCEPT ![p] = TRUE]
    /\ \E o \in FetchFailures \cup {"ok"} :
        /\ requests' = [requests EXCEPT ![p] = Append(@,
                [kind |-> "embed", url |-> EmbedUrl(url[p]),
                 referer |-> EmbedUrl(url[p]), outcome |-> o])]
        /\ IF o = "ok"
           THEN \E page \in PagesAt(EmbedUrl(url[p])) :
                /\ html' = [html EXCEPT ![p] = page]
                /\ IF PassMd5Search(page) = Nothing
                   THEN /\ logged' = [logged EXCEPT ![p] = @ \cup {"no_pass_md5"}]
                        /\ result' = [result EXCEPT ![p] = ResolutionFailed]
                        /\ resCause' = [resCause EXCEPT ![p] = "no_token"]
                        /\ pc' = [pc EXCEPT ![p] = "resolved"]
                        /\ UNCHANGED passMd5Path
                   ELSE /\ passMd5Path' = [passMd5Path EXCEPT ![p] = PassMd5Search(page)[1]]
                        /\ pc' = [pc EXCEPT ![p] = "md5_get"]
                        /\ UNCHANGED <<logged, result, resCause>>
           ELSE /\ result' = [result EXCEPT ![p] = ResolutionFailed]
                /\ resCause' = [resCause EXCEPT ![p] = "fetch_embed"]
                /\ logged' = [logged EXCEPT ![p] = @ \cup {FetchErrorLog(o)}]
                /\ pc' = [pc EXCEPT ![p] = AfterFetchError("start")]
                /\ UNCHANGED <<html, passMd5Path>>
    /\ UNCHANGED <<cliVars, url, outputPath, md5Body, mediaUrlBase, randomChars, clock,
                   transferVars, ret>>

\* lines 77-97 and, on an error, 98-103: the GET of the pass_md5 URL and the
\* assembly of the final URL and the title
Md5Get(p) ==
    /\ pc[p] = "md5_get"
    /\ \E o \in FetchFailures \cup {"ok"} :
        /\ requests' = [requests EXCEPT ![p] = Append(@,
                [kind |-> "pass_md5",
                 url |-> PassMd5Url(Netloc(EmbedUrl(url[p])), passMd5Path[p]),
                 referer |-> EmbedUrl(url[p]), outcome |-> o])]
        /\ IF o = "ok"
           THEN \E b \in Md5BodySamples, rnd \in RandomChoices, t \in ClockSamples :
                LET token == LastSegment(passMd5Path[p])
                IN  /\ md5Body' = [md5Body EXCEPT ![p] = b]
                    /\ mediaUrlBase' = [mediaUrlBase EXCEPT ![p] = MediaUrlBase(b)]
                    /\ randomChars' = [randomChars EXCEPT ![p] = rnd]
                    /\ clock' = [clock EXCEPT ![p] = t]
                    /\ result' = [result EXCEPT ![p] =
                            <<FinalUrl(MediaUrlBase(b), rnd, token, t),
                              Title(html[p], token)>>]
                    /\ logged' = [logged EXCEPT ![p] = @ \cup {"link_created"}]
                    /\ pc' = [pc EXCEPT ![p] = "resolved"]
                    /\ UNCHANGED resCause
           ELSE /\ result' = [result EXCEPT ![p] = ResolutionFailed]
                /\ resCause' = [resCause EXCEPT ![p] = "fetch_md5"]
                /\ logged' = [logged EXCEPT ![p] = @ \cup {FetchErrorLog(o)}]
                /\ pc' = [pc EXCEPT ![p] = AfterFetchError("md5_get")]
                /\ UNCHANGED <<md5Body, mediaUrlBase, randomChars, clock>>
    /\ UNCHANGED <<cliVars, url, outputPath, sessionOpen, html, passMd5Path, transferVars, ret>>

-----------------------------------------------------------------------------
(* Doodozer.download and Doodozer._download_file *)

\* lines 64-81: the result is taken apart into final_path and the URL to
\* get; the locals of get_download_url are gone
CheckResult(p) ==
    /\ pc[p] = "resolved"
    /\ html' = [html EXCEPT ![p] = Nothing]
    /\ passMd5Path' = [passMd5Path EXCEPT ![p] = Nothing]
    /\ md5Body' = [md5Body EXCEPT ![p] = Nothing]
    /\ mediaUrlBase' = [mediaUrlBase EXCEPT ![p] = Nothing]
    /\ randomChars' = [randomChars EXCEPT ![p] = Nothing]
    /\ clock' = [clock EXCEPT ![p] = 0]
    /\ IF result[p] = Nothing
       THEN /\ logged' = [logged EXCEPT ![p] = @ \cup {"no_video_info"}]
            /\ pc' = [pc EXCEPT ![p] = "closing"]
            /\ UNCHANGED finalPath
       ELSE /\ finalPath' = [finalPath EXCEPT ![p] =
                    FinalPath(fs, outputPath[p], result[p][2])]
            /\ logged' = [logged EXCEPT ![p] = @ \cup {"saved_to"}]
            /\ pc' = [pc EXCEPT ![p] = "media_get"]
    /\ result' = [result EXCEPT ![p] = Nothing]
    /\ UNCHANGED <<cliVars, url, outputPath, sessionOpen, requests, resCause, showProgress,
                   progressBar, respOpen, fileOpen, handle, received, nWritten,
                   dlError, removeFailed, raised, fs, ret>>

\* A status that is never looked at: only a failed connection is an error.
AnyStatus(o) == o # "transport"

\* session.get(url) returned and raise_for_status() did not raise
Accepted(o) == o = "ok"

\* lines 110-124: session.get(url), raise_for_status(), the Content-Length
\* header and the progress bar
MediaGet(p) ==
    /\ pc[p] = "media_get"
    /\ \E o \in {"ok", "transport", "status"} :
        /\ requests' = [requests EXCEPT ![p] = Append(@,
                [kind |-> "media", outcome |-> o])]
        /\ IF Accepted(o)
           THEN /\ respOpen' = [respOpen EXCEPT ![p] = @ + 1]
                /\ logged' = [logged EXCEPT ![p] = @ \cup {"starting"}]
                /\ \E total_size \in ContentLengthSamples :
                        progressBar' = [progressBar EXCEPT ![p] =
                            NewProgressBar(showProgress[p], total_size)]
                /\ pc' = [pc EXCEPT ![p] = "open_file"]
                /\ UNCHANGED dlError
           ELSE /\ dlError' = [dlError EXCEPT ![p] = o]
                /\ pc' = [pc EXCEPT ![p] = "cleanup"]
                /\ UNCHANGED <<respOpen, logged, progressBar>>
    /\ UNCHANGED <<cliVars, url, outputPath, sessionOpen, resolveVars, finalPath, showProgress,
                   fileOpen, handle, received, nWritten, removeFailed, raised, fs, ret>>

\* line 126: aiofiles.open(path, "wb")
OpenFile(p) ==
    /\ pc[p] = "open_file"
    /\ \/ /\ CanOpen(fs, finalPath[p])
          /\ fs' = OpenWb(fs, finalPath[p], p)
          /\ handle' = [handle EXCEPT ![p] =
                Some([ino |-> fs'[Resolve(finalPath[p])].ino, pos |-> 0])]
          /\ fileOpen' = [fileOpen EXCEPT ![p] = @ + 1]
          /\ pc' = [pc EXCEPT ![p] = "read"]
          /\ UNCHANGED <<respOpen, dlError>>
       \/ /\ dlError' = [dlError EXCEPT ![p] = "open"]
          /\ respOpen' = [respOpen EXCEPT ![p] = Release(@)]
          /\ pc' = [pc EXCEPT ![p] = "cleanup"]
          /\ UNCHANGED <<fs, handle, fileOpen>>
    /\ UNCHANGED <<cliVars, url, outputPath, sessionOpen, requests, resolveVars, finalPath,
                   showProgress, progressBar, received, nWritten, removeFailed,
                   raised, logged, ret>>

\* Both context managers are left on an error inside them.
Unwind(p) ==
    /\ fileOpen' = [fileOpen EXCEPT ![p] = Release(@)]
    /\ respOpen' = [respOpen EXCEPT ![p] = Release(@)]
    /\ handle' = [handle EXCEPT ![p] = Nothing]

\* line 128: the next chunk of response.content.iter_chunked(chunk_size)
ReadChunk(p) ==
    /\ pc[p] = "read"
    /\ \/ /\ Len(received[p]) < MaxChunks
          /\ \E c \in ChunkSamples : received' = [received EXCEPT ![p] = Append(@, c)]
          /\ pc' = [pc EXCEPT ![p] = "write"]
          /\ UNCHANGED <<fileOpen, respOpen, handle, dlError>>
       \/ /\ pc' = [pc EXCEPT ![p] = "close_file"]
          /\ UNCHANGED <<fileOpen, respOpen, handle, dlError, received>>
       \/ /\ dlError' = [dlError EXCEPT ![p] = "stream"]
          /\ Unwind(p)
          /\ received' = [received EXCEPT ![p] = <<>>]
          /\ pc' = [pc EXCEPT ![p] = "cleanup"]
    /\ UNCHANGED <<cliVars, url, outputPath, sessionOpen, requests, resolveVars, finalPath,
                   showProgress, progressBar, nWritten, removeFailed, raised, fs,
                   logged, ret>>

\* lines 129-131: await f.write(chunk) and the update of the progress bar
WriteChunk(p) ==
    /\ pc[p] = "write"
    /\ \/ /\ fs' = WriteChunkTo(fs, finalPath[p], handle[p][1], received[p][Len(received[p])])
          /\ handle' = [handle EXCEPT ![p][1].pos = @ + Len(received[p][Len(received[p])])]
          /\ nWritten' = [nWritten EXCEPT ![p] = @ + 1]
          /\ progressBar' = [progressBar EXCEPT ![p] =
                UpdateBar(@, received[p][Len(received[p])])]
          /\ pc' = [pc EXCEPT ![p] = "read"]
          /\ UNCHANGED <<fileOpen, respOpen, dlError, received>>
       \/ /\ dlError' = [dlError EXCEPT ![p] = "write"]
          /\ Unwind(p)
          /\ received' = [received EXCEPT ![p] = <<>>]
          /\ pc' = [pc EXCEPT ![p] = "cleanup"]
          /\ UNCHANGED <<fs, nWritten, progressBar>>
    /\ UNCHANGED <<cliVars, url, outputPath, sessionOpen, requests, resolveVars, finalPath,
                   showProgress, removeFailed, raised, logged, ret>>

\* lines 126-136: the end of the body; both "async with" blocks are left.
\* Closing the file flushes it, which can fail as a write can.
CloseFile(p) ==
    /\ pc[p] = "close_file"
    /\ Unwind(p)
    /\ \/ /\ logged' = [logged EXCEPT ![p] = @ \cup {"complete"}]
          /\ progressBar' = [progressBar EXCEPT ![p] = CloseBar(@)]
          /\ pc' = [pc EXCEPT ![p] = "closing"]
          /\ UNCHANGED <<received, dlError>>
       \/ /\ dlError' = [dlError EXCEPT ![p] = "flush"]
          /\ received' = [received EXCEPT ![p] = <<>>]
          /\ pc' = [pc EXCEPT ![p] = "cleanup"]
          /\ UNCHANGED <<logged, progressBar>>
    /\ UNCHANGED <<cliVars, url, outputPath, sessionOpen, requests, resolveVars, finalPath,
                   showProgress, nWritten, removeFailed, raised, fs, ret>>

\* The message of the except branch of _download_file taken
DownloadErrorLog(failure) ==
    IF IsClientError(failure) THEN "download_failed" ELSE "save_failed"

\* Nothing guards os.remove in the except branches: its error leaves
\* _download_file.
Uncaught(failed) == IF failed THEN "remove_error" ELSE None

\* lines 137-144: the except branches
CleanupFile(p) ==
    /\ pc[p] = "cleanup"
    /\ logged' = [logged EXCEPT ![p] = @ \cup {DownloadErrorLog(dlError[p])}]
    /\ \E out \in Cleanup(fs, finalPath[p]) :
        /\ fs' = out.fs
        /\ removeFailed' = [removeFailed EXCEPT ![p] = out.failed]
        /\ raised' = [raised EXCEPT ![p] = Uncaught(out.failed)]
    /\ pc' = [pc EXCEPT ![p] = "closing"]
    /\ UNCHANGED <<cliVars, url, outputPath, sessionOpen, requests, resolveVars, finalPath,
                   showProgress, progressBar, respOpen, fileOpen, handle, received,
                   nWritten, dlError, ret>>

\* What the caller of download() gets: None, or the exception on its way out
Outcome(exc) == IF exc = None THEN "returned_None" ELSE "raised"

\* line 61: the end of "async with aiohttp.ClientSession"; download() is over
CloseSession(p) ==
    /\ pc[p] = "closing"
    /\ sessionOpen' = [sessionOpen EXCEPT ![p] = FALSE]
    /\ ret' = [ret EXCEPT ![p] = Outcome(raised[p])]
    /\ pc' = [pc EXCEPT ![p] = "done"]
    /\ UNCHANGED <<cliVars, url, outputPath, requests, resolveVars, transferVars, logged>>

-----------------------------------------------------------------------------
(* main *)

\* The instance main creates for the item at hand ("downloader")
Downloader == "d1"

\* A message of main: what it says, about which URL, about which item
Msg(m, u, i) == [msg |-> m, url |-> u, i |-> i]

\* except Exception of lines 113-114 is outside the loop: an exception of
\* download() ends the batch.
EndsBatch(r) == r = "raised"

\* download() of p ran to a fully written file
ItemOk(p) ==
    /\ resCause[p] = "none"
    /\ dlError[p] = None
    /\ finalPath[p] # Nothing
    /\ Exists(fs, finalPath[p])
    /\ fs[Resolve(finalPath[p])].kind = "file"
    /\ fs[Resolve(finalPath[p])].data = Concat(received[p])

\* lines 64-77: the entries of the argument are trimmed and validated
Validate ==
    /\ cliPc = "start"
    /\ validUrls' = ValidUrls(argsUrl)
    /\ item' = 1
    /\ IF ValidUrls(argsUrl) = <<>>
       THEN /\ cliLogged' = cliLogged
                    \cup {Msg("ignored", u, 0) : u \in IgnoredUrls(argsUrl)}
                    \cup {Msg("no_valid_urls", <<>>, 0)}
            /\ cliPc' = "exit"
       ELSE /\ cliLogged' = cliLogged
                    \cup {Msg("ignored", u, 0) : u \in IgnoredUrls(argsUrl)}
                    \cup {Msg("downloading", <<>>, Len(ValidUrls(argsUrl)))}
            /\ cliPc' = "prepare"
    /\ UNCHANGED <<pc, url, outputPath, sessionOpen, requests, resolveVars, transferVars,
                   logged, ret, argsUrl, argsOutputPath, argsNoProgress, osBound, attempts>>

\* lines 79-88: with several URLs and an output path without a trailing
\* separator, os is imported and the directory made when it is none
PrepareOutput ==
    /\ cliPc = "prepare"
    /\ IF WantsDirectory(validUrls, argsOutputPath)
       THEN /\ osBound' = TRUE
            /\ IF IsDir(fs, argsOutputPath[1])
               THEN /\ cliPc' = "loop"
                    /\ UNCHANGED <<fs, cliLogged>>
               ELSE IF MakeDirsRaises(fs, argsOutputPath[1])
                    THEN /\ cliLogged' = cliLogged \cup {Msg("unexpected_error", <<>>, 0)}
                         /\ cliPc' = "exit"
                         /\ UNCHANGED fs
                    ELSE /\ fs' = MakeDirs(fs, argsOutputPath[1])
                         /\ cliLogged' = cliLogged \cup {Msg("creating_directory", <<>>, 0)}
                         /\ cliPc' = "loop"
       ELSE /\ cliPc' = "loop"
            /\ UNCHANGED <<osBound, fs, cliLogged>>
    /\ UNCHANGED <<pc, url, outputPath, sessionOpen, requests, resolveVars, finalPath,
                   showProgress, progressBar, respOpen, fileOpen, handle, received,
                   nWritten, dlError, removeFailed, raised, logged, ret, argsUrl,
                   argsOutputPath, argsNoProgress, validUrls, item, attempts>>

\* lines 90-108: the output path of the item, a new Doodozer, and
\* download() is called
NextItem ==
    /\ cliPc = "loop"
    /\ IF ReadsUnboundOs(validUrls, argsOutputPath, osBound)
       THEN /\ cliLogged' = cliLogged
                    \cup {Msg("processing", validUrls[item], item),
                          Msg("unexpected_error", <<>>, 0)}
            /\ cliPc' = "exit"
            /\ UNCHANGED <<pc, url, outputPath, sessionOpen, requests, resolveVars,
                           transferVars, logged, ret>>
       ELSE LET p == Downloader
            IN  /\ cliLogged' = cliLogged \cup {Msg("processing", validUrls[item], item)}
                /\ cliPc' = "await"
                /\ url' = [url EXCEPT ![p] = validUrls[item]]
                /\ outputPath' = [outputPath EXCEPT ![p] =
                        CurrentOutputPath(fs, validUrls, argsOutputPath)]
                /\ showProgress' = [showProgress EXCEPT ![p] = ~argsNoProgress]
                /\ pc' = [pc EXCEPT ![p] = "start"]
                /\ sessionOpen' = [sessionOpen EXCEPT ![p] = FALSE]
                /\ requests' = [requests EXCEPT ![p] = <<>>]
                /\ html' = [html EXCEPT ![p] = Nothing]
                /\ passMd5Path' = [passMd5Path EXCEPT ![p] = Nothing]
                /\ md5Body' = [md5Body EXCEPT ![p] = Nothing]
                /\ mediaUrlBase' = [mediaUrlBase EXCEPT ![p] = Nothing]
                /\ randomChars' = [randomChars EXCEPT ![p] = Nothing]
                /\ clock' = [clock EXCEPT ![p] = 0]
                /\ result' = [result EXCEPT ![p] = Nothing]
                /\ resCause' = [resCause EXCEPT ![p] = "none"]
                /\ finalPath' = [finalPath EXCEPT ![p] = Nothing]
                /\ progressBar' = [progressBar EXCEPT ![p] = Nothing]
                /\ respOpen' = [respOpen EXCEPT ![p] = 0]
                /\ fileOpen' = [fileOpen EXCEPT ![p] = 0]
                /\ handle' = [handle EXCEPT ![p] = Nothing]
                /\ received' = [received EXCEPT ![p] = <<>>]
                /\ nWritten' = [nWritten EXCEPT ![p] = 0]
                /\ dlError' = [dlError EXCEPT ![p] = None]
                /\ removeFailed' = [removeFailed EXCEPT ![p] = FALSE]
                /\ raised' = [raised EXCEPT ![p] = None]
                /\ logged' = [logged EXCEPT ![p] = {}]
                /\ ret' = [ret EXCEPT ![p] = "running"]
                /\ UNCHANGED fs
    /\ UNCHANGED <<argsUrl, argsOutputPath, argsNoProgress, validUrls, item, osBound,
                   attempts>>

\* lines 108-114: download() is over; the item is reported finished and the
\* loop goes on, or all is reported done, or the exception ends the batch
ItemDone ==
    /\ cliPc = "await"
    /\ pc[Downloader] = "done"
    /\ attempts' = Append(attempts,
            [url |-> url[Downloader], output_path |-> outputPath[Downloader],
             ok |-> ItemOk(Downloader)])
    /\ IF EndsBatch(ret[Downloader])
       THEN /\ cliLogged' = cliLogged \cup {Msg("unexpected_error", <<>>, 0)}
            /\ cliPc' = "exit"
            /\ UNCHANGED item
       ELSE IF item < Len(validUrls)
            THEN /\ cliLogged' = cliLogged \cup {Msg("finished", <<>>, item)}
                 /\ item' = item + 1
                 /\ cliPc' = "loop"
            ELSE /\ cliLogged' = cliLogged
                        \cup {Msg("finished", <<>>, item), Msg("all_downloaded", <<>>, 0)}
                 /\ cliPc' = "exit"
                 /\ UNCHANGED item
    /\ UNCHANGED <<pc, url, outputPath, sessionOpen, requests, resolveVars, transferVars,
                   logged, ret, argsUrl, argsOutputPath, argsNoProgress, validUrls, osBound>>

-----------------------------------------------------------------------------

Next ==
    \E p \in Procs :
        \/ EmbedGet(p)
        \/ Md5Get(p)
        \/ CheckResult(p)
        \/ MediaGet(p)
        \/ OpenFile(p)
        \/ ReadChunk(p)
        \/ WriteChunk(p)
        \/ CloseFile(p)
        \/ CleanupFile(p)
        \/ CloseSession(p)

\* One download
Spec == Init /\ [][Next]_vars

\* Two concurrent downloads
SpecPair == InitPair /\ [][Next]_vars

NextCli ==
    \/ Validate
    \/ PrepareOutput
    \/ NextItem
    \/ ItemDone
    \/ EmbedGet(Downloader)
    \/ Md5Get(Downloader)
    \/ CheckResult(Downloader)
    \/ MediaGet(Downloader)
    \/ OpenFile(Downloader)
    \/ ReadChunk(Downloader)
    \/ WriteChunk(Downloader)
    \/ CloseFile(Downloader)
    \/ CleanupFile(Downloader)
    \/ CloseSession(Downloader)

\* One run of main(): the downloads of a batch, one after the other
SpecCli == InitCli /\ [][NextCli]_vars

-----------------------------------------------------------------------------
(* Properties *)

\* _download_file is over (download() may still have its session to close)
TransferOver(p) == pc[p] \in {"closing", "done"}

\* _download_file was entered and caught an error
TransferFailed(p) == TransferOver(p) /\ dlError[p] # None

\* _download_file was entered and ran to its end without an error
TransferSucceeded(p) ==
    TransferOver(p) /\ resCause[p] = "none" /\ dlError[p] = None

\* The first n chunks, concatenated
Written(chunks, n) == Concat(SubSeq(chunks, 1, n))

\* C1, as claimed: after a failed download (failed GET, broken stream, failed
\* write) the destination path does not exist, whatever was there before.
C1_NoFileAfterFailure ==
    \A p \in Procs : TransferFailed(p) => ~Exists(fs, finalPath[p])

\* C1, amended: after a failed download the destination path does not exist,
\* unless os.remove itself failed (then what is at the path stays there).
C1_NoFileAfterFailureUnlessRemoveFails ==
    \A p \in Procs :
        (TransferFailed(p) /\ ~removeFailed[p]) => ~Exists(fs, finalPath[p])

\* A stream that broke after a chunk was written, and the file is gone.
C1_Witness ==
    \E p \in Procs :
        /\ pc[p] = "done"
        /\ dlError[p] = "stream"
        /\ nWritten[p] > 0
        /\ ~removeFailed[p]
        /\ ~Exists(fs, finalPath[p])

\* C2: a failed media GET, a broken stream or a failed write reaches the
\* caller of download() as a failure: the call does not end as a successful
\* one does, by returning None.
C2_FailureReachesCaller ==
    \A p \in Procs :
        (pc[p] = "done" /\ dlError[p] # None) => ret[p] # "returned_None"

\* C3: when the removal of the partial file fails, that error is logged and
\* does not leave the operation; the caller gets the download error.
C3_RemoveErrorLoggedNotRaised ==
    \A p \in Procs :
        (TransferOver(p) /\ removeFailed[p]) =>
            /\ "remove_failed" \in logged[p]
            /\ raised[p] # "remove_error"

\* C4: a page without a /pass_md5/<path> match ends the resolution with an
\* outcome that differs from that of a fetch error, and the embed GET stays
\* the only request.
C4_MissingTokenDistinct ==
    \A p \in Procs :
        /\ resCause[p] = "no_token" =>
              /\ Len(requests[p]) = 1
              /\ pc[p] = "resolved" => result[p] = Nothing
        /\ \A q \in Procs :
              (/\ pc[p] = "resolved" /\ resCause[p] = "no_token"
               /\ pc[q] = "resolved" /\ resCause[q] \in {"fetch_embed", "fetch_md5"})
              => result[p] # result[q]

\* Both GETs of the resolution were answered and read, and the page held a path.
ResolutionRan(p) ==
    /\ Len(requests[p]) = 2
    /\ \A i \in 1..2 : requests[p][i].outcome = "ok"
    /\ PassMd5Search(html[p]) # Nothing

\* C5: resolution returns None or a pair of a final URL and a title, never
\* one of the two alone; a pair only when both GETs succeeded and the page
\* held a token, None whenever a step failed.
C5_AllOrNothing ==
    \A p \in Procs :
        pc[p] = "resolved" =>
            /\ \/ result[p] = Nothing
               \/ /\ Len(result[p]) = 2
                  /\ result[p][1] # <<>>
                  /\ result[p][2] = Title(html[p], LastSegment(passMd5Path[p]))
            /\ result[p] # Nothing <=> ResolutionRan(p)
            /\ result[p] # Nothing <=> resCause[p] = "none"

\* The page with its title was read, the pass_md5 GET failed: nothing of the
\* title is returned.
C5_Witness ==
    \E p \in Procs :
        /\ pc[p] = "resolved"
        /\ resCause[p] = "fetch_md5"
        /\ TitleTag(html[p]) # Nothing
        /\ result[p] = Nothing

Alnum ==
    {"A", "B", "C", "D", "E", "F", "G", "H", "I", "J", "K", "L", "M", "N",
     "O", "P", "Q", "R", "S", "T", "U", "V", "W", "X", "Y", "Z", "a", "b",
     "c", "d", "e", "f", "g", "h", "i", "j", "k", "l", "m", "n", "o", "p",
     "q", "r", "s", "t", "u", "v", "w", "x", "y", "z", "0", "1", "2", "3",
     "4", "5", "6", "7", "8", "9"}

\* C6: the final URL of a successful resolution is the pass_md5 body without
\* its leading and trailing whitespace, 10 alphanumeric characters,
\* "?token=", the last segment of the pass_md5 path, "&expiry=" and the
\* whole seconds of the clock reading.
C6_FinalUrlFormat ==
    \A p \in Procs :
        (pc[p] = "resolved" /\ result[p] # Nothing) =>
            /\ Len(randomChars[p]) = 10
            /\ \A i \in 1..Len(randomChars[p]) : randomChars[p][i] \in Alnum
            /\ result[p][1] =
                   Strip(md5Body[p]) \o randomChars[p]
                   \o <<"?", "t", "o", "k", "e", "n", "=">>
                   \o LastSegment(passMd5Path[p])
                   \o <<"&", "e", "x", "p", "i", "r", "y", "=">>
                   \o Decimal(clock[p] \div 10)

\* C7: while a download writes, the file holds the chunks written so far in
\* the order received; after a successful download it holds all chunks
\* received, concatenated, and nothing of what was at the path before.
C7_FileIsConcatenation ==
    \A p \in Procs :
        /\ pc[p] \in {"read", "write", "close_file"} =>
              /\ Exists(fs, finalPath[p])
              /\ fs[finalPath[p]].data = Written(received[p], nWritten[p])
        /\ TransferSucceeded(p) =>
              /\ Exists(fs, finalPath[p])
              /\ nWritten[p] = Len(received[p])
              /\ fs[finalPath[p]].data = Concat(received[p])

\* Two different chunks written over a file that was there before.
C7_Witness ==
    \E p \in Procs :
        /\ pc[p] = "done"
        /\ TransferSucceeded(p)
        /\ received[p] = <<<<2, 3>>, <<1>>>>
        /\ fs[finalPath[p]].ino = "old"
        /\ fs[finalPath[p]].data = <<2, 3, 1>>

\* C8: a download never holds more than one file handle or more than one
\* response stream, and holds none once _download_file is left, on the
\* success path and on every error path; the session is closed with download().
C8_HandlesReleased ==
    \A p \in Procs :
        /\ fileOpen[p] \in {0, 1}
        /\ respOpen[p] \in {0, 1}
        /\ pc[p] \in {"cleanup", "closing", "done"} =>
              fileOpen[p] = 0 /\ respOpen[p] = 0
        /\ pc[p] = "done" => ~sessionOpen[p]

\* A write failed with both the file and the response open; both are closed.
C8_Witness ==
    \E p \in Procs :
        /\ pc[p] = "done"
        /\ dlError[p] = "write"
        /\ nWritten[p] = 1
        /\ fileOpen[p] = 0
        /\ respOpen[p] = 0

\* No other download has chosen the destination of p.
OwnPath(p) == \A q \in Procs \ {p} : finalPath[q] # finalPath[p]

\* C9: with different destination paths, whatever the other download does
\* (its reads, writes, failure and cleanup), the file of a download holds
\* exactly its own chunks written so far, and all of them once it succeeded.
C9_NoInterference ==
    \A p \in Procs :
        OwnPath(p) =>
            /\ pc[p] \in {"read", "write", "close_file"} =>
                  /\ Exists(fs, finalPath[p])
                  /\ fs[finalPath[p]].data = Written(received[p], nWritten[p])
            /\ TransferSucceeded(p) =>
                  /\ Exists(fs, finalPath[p])
                  /\ fs[finalPath[p]].data = Concat(received[p])

\* One download succeeded, the other failed after writing and was cleaned up.
C9_Witness ==
    \E p, q \in Procs :
        /\ p # q
        /\ pc[p] = "done" /\ pc[q] = "done"
        /\ finalPath[p] # finalPath[q]
        /\ TransferSucceeded(p)
        /\ Len(received[p]) = 2
        /\ TransferFailed(q)
        /\ nWritten[q] > 0
        /\ ~Exists(fs, finalPath[q])

RequestOrder == <<"embed", "pass_md5", "media">>

\* C10: the GETs of one download are a prefix of embed, pass_md5, media, each
\* issued once, and every GET but the last was answered with success.
C10_NoRetries ==
    \A p \in Procs :
        /\ Len(requests[p]) <= 3
        /\ \A i \in 1..Len(requests[p]) :
              /\ requests[p][i].kind = RequestOrder[i]
              /\ i < Len(requests[p]) => requests[p][i].outcome = "ok"

\* Three GETs, the last one failed, and download() is over.
C10_Witness ==
    \E p \in Procs :
        /\ pc[p] = "done"
        /\ Len(requests[p]) = 3
        /\ requests[p][3].outcome = "status"

\* The bytes the download has written to its destination so far
BytesWritten(p) == Len(Written(received[p], nWritten[p]))

\* C11: with progress reporting enabled, progress has been reported once per
\* chunk written and the cumulative count reported equals the bytes written
\* so far; after a successful download it equals the size of the file; and
\* the count never decreases.
C11_ProgressFollowsWrites ==
    /\ [](\A p \in Procs :
            (showProgress[p] /\ pc[p] \in {"read", "write", "close_file"}) =>
                /\ progressBar[p] # Nothing
                /\ progressBar[p][1].updates = nWritten[p]
                /\ progressBar[p][1].n = BytesWritten(p))
    /\ [](\A p \in Procs :
            (showProgress[p] /\ TransferSucceeded(p) /\ finalPath[p] # Nothing) =>
                /\ Exists(fs, finalPath[p])
                /\ progressBar[p][1].n = Len(fs[Resolve(finalPath[p])].data))
    /\ [][\A p \in Procs :
            (progressBar[p] # Nothing /\ progressBar'[p] # Nothing) =>
                progressBar'[p][1].n >= progressBar[p][1].n]_vars

\* The characters of s that a file name may hold, in their order
FileNameChars(s) ==
    SelectSeq(s, LAMBDA c : c \notin {"\\", "/", "*", "?", ":", "\"", "<", ">", "|"})

\* C12: the title of a successful resolution holds none of \ / * ? : " < > |;
\* it is the trimmed text of the page's title element without those
\* characters, or, on a page without a title element, the last segment of
\* the pass_md5 path without them.
C12_TitleSanitized ==
    \A p \in Procs :
        (pc[p] = "resolved" /\ result[p] # Nothing) =>
            /\ \A i \in 1..Len(result[p][2]) :
                  result[p][2][i] \notin {"\\", "/", "*", "?", ":", "\"", "<", ">", "|"}
            /\ Find(html[p], TitleOpen, 1) > 0 =>
                  result[p][2] = FileNameChars(Strip(TitleTag(html[p])[1]))
            /\ Find(html[p], TitleOpen, 1) = 0 =>
                  result[p][2] = FileNameChars(LastSegment(passMd5Path[p]))

\* The title " a/b " of a page came back as "ab".
C12_Witness ==
    \E p \in Procs :
        /\ pc[p] = "resolved"
        /\ result[p] # Nothing
        /\ TitleTag(html[p]) = Some(<<" ", "a", "/", "b", " ">>)
        /\ result[p][2] = <<"a", "b">>

\* path is what follows the /pass_md5/ at k of page, up to the next quote or
\* the end of page
PathAt(page, k, path) ==
    LET from == k + Len(PassMd5Literal)
    IN  /\ StartsAt(page, k, PassMd5Literal)
        /\ StartsAt(page, from, path)
        /\ \A i \in 1..Len(path) : path[i] \notin {"\"", "'"}
        /\ from + Len(path) <= Len(page) => page[from + Len(path)] \in {"\"", "'"}

\* The token a final URL carries: what stands between "?token=" and "&expiry="
TokenOf(final_url) ==
    LET a == Find(final_url, <<"?", "t", "o", "k", "e", "n", "=">>, 1)
        b == Find(final_url, <<"&", "e", "x", "p", "i", "r", "y", "=">>, a + 7)
    IN  SubSeq(final_url, a + 7, b - 1)

\* token is what follows the last '/' of path, all of path without a '/'
AfterLastSlash(path, token) ==
    /\ \A i \in 1..Len(token) : token[i] # "/"
    /\ \/ path = token
       \/ \E pre \in {SubSeq(path, 1, k) : k \in 0..Len(path)} :
              path = pre \o <<"/">> \o token

\* The resolution of p has extracted a path from the page it holds
PathExtracted(p) ==
    \/ pc[p] = "md5_get"
    \/ pc[p] = "resolved" /\ result[p] # Nothing

\* C13, as claimed: the extracted path is what follows the first /pass_md5/
\* of the page up to the next quote, and the token of the final URL is what
\* follows the last '/' of that path.
C13_PathAfterFirstLiteral ==
    \A p \in Procs :
        /\ PathExtracted(p) =>
              PathAt(html[p], Find(html[p], PassMd5Literal, 1), passMd5Path[p])
        /\ (pc[p] = "resolved" /\ result[p] # Nothing) =>
              AfterLastSlash(passMd5Path[p], TokenOf(result[p][1]))

\* C13, amended: the extracted path is what follows the first /pass_md5/
\* that a character other than a quote follows, up to the next quote or the
\* end of the page; the token of the final URL is what follows the last '/'
\* of that path.
C13_PathAfterFirstMatch ==
    \A p \in Procs :
        /\ PathExtracted(p) =>
              /\ passMd5Path[p] # <<>>
              /\ \E k \in 1..Len(html[p]) :
                    /\ PathAt(html[p], k, passMd5Path[p])
                    /\ \A j \in 1..(k - 1) :
                          StartsAt(html[p], j, PassMd5Literal) =>
                              html[p][j + Len(PassMd5Literal)] \in {"\"", "'"}
        /\ (pc[p] = "resolved" /\ result[p] # Nothing) =>
              AfterLastSlash(passMd5Path[p], TokenOf(result[p][1]))

\* A page whose first /pass_md5/ has no path resolved with the path of its
\* second one, x/y, and the token y.
C13_Witness ==
    \E p \in Procs :
        /\ pc[p] = "resolved"
        /\ result[p] # Nothing
        /\ html[p] = PageSecond
        /\ passMd5Path[p] = <<"x", "/", "y">>
        /\ TokenOf(result[p][1]) = <<"y">>

\* The media GET of p was answered with a 2xx status
MediaOk(p) == Len(requests[p]) = 3 /\ requests[p][3].outcome = "ok"

\* C17, as claimed: the file system changes only for a download whose media
\* GET returned a 2xx status; a failed resolution issues no media GET.
C17_TouchedOnlyAfterMediaOk ==
    /\ [][fs' # fs => \E p \in Procs : MediaOk(p)]_vars
    /\ [](\A p \in Procs : resCause[p] # "none" => Len(requests[p]) < 3)

\* C17, amended: a file is created, truncated or written only for a download
\* whose media GET returned a 2xx status; a failed resolution issues no
\* media GET and no file changes before a media GET was issued; after a
\* failed media GET the only change is the removal of what is at the
\* destination.
C17_WrittenOnlyAfterMediaOk ==
    /\ [][fs' # fs =>
            \E p \in Procs :
                /\ Len(requests[p]) = 3
                /\ ~MediaOk(p) =>
                      /\ pc[p] = "cleanup"
                      /\ Exists(fs, finalPath[p])
                      /\ fs' = [q \in DOMAIN fs \ {Resolve(finalPath[p])} |-> fs[q]]]_vars
    /\ [](\A p \in Procs :
            resCause[p] # "none" =>
                /\ Len(requests[p]) < 3
                /\ \A i \in 1..Len(requests[p]) : requests[p][i].kind # "media")

\* The media GET was answered with a non-2xx status and the file that was at
\* the destination before is gone; nothing else changed.
C17_Witness ==
    \E p \in Procs :
        /\ pc[p] = "done"
        /\ Len(requests[p]) = 3
        /\ requests[p][3].outcome = "status"
        /\ finalPath[p] = OutFile
        /\ ~removeFailed[p]
        /\ fs = [q \in DOMAIN FsUsed \ {OutFile} |-> FsUsed[q]]

\* The path of a URL: what follows the host
UrlPath(u) ==
    LET from == SchemeEnd(u) + 3 + Len(Netloc(u))
    IN  SubSeq(u, from, Len(u))

\* C18: the embed GET goes to the URL with its view segment /d/ rewritten to
\* /e/, with that URL as Referer; a URL in embed form is requested
\* unchanged; normalizing the normalized URL changes nothing; the host stays
\* the same and the pass_md5 GET goes to that host.
C18_NormalizationIdempotent ==
    \A p \in Procs :
        /\ Len(requests[p]) >= 1 =>
              LET got == requests[p][1].url
              IN  /\ requests[p][1].referer = got
                  /\ ~StartsAt(UrlPath(got), 1, <<"/", "d", "/">>)
                  /\ StartsAt(UrlPath(url[p]), 1, <<"/", "e", "/">>) => got = url[p]
                  /\ StartsAt(UrlPath(got), 1, <<"/", "e", "/">>) => EmbedUrl(got) = got
                  /\ EmbedUrl(EmbedUrl(url[p])) = EmbedUrl(url[p])
                  /\ Netloc(got) = Netloc(url[p])
        /\ Len(requests[p]) >= 2 =>
              StartsAt(requests[p][2].url, 1,
                       <<"h", "t", "t", "p", "s", ":", "/", "/">> \o Netloc(url[p])
                       \o <<"/", "p", "a", "s", "s", "_", "m", "d", "5", "/">>)

\* The URLs main has awaited a download() of, in the order of the calls
AttemptedUrls == [i \in 1..Len(attempts) |-> attempts[i].url]

ErrorMessages ==
    {"request_error", "processing_error", "no_pass_md5", "no_video_info",
     "download_failed", "save_failed"}

\* C14: in a batch, an item that failed (in its resolution, media GET,
\* stream, write or cleanup) has an error logged for it, and when main() is
\* over every valid URL has had its download() call, in input order.
C14_BatchContinuesAfterFailure ==
    /\ (cliPc \in {"await", "exit"} /\ pc[Downloader] = "done" /\ ~ItemOk(Downloader)) =>
          logged[Downloader] \cap ErrorMessages # {}
    /\ (cliPc = "exit" /\ \E i \in 1..Len(attempts) : ~attempts[i].ok) =>
          AttemptedUrls = validUrls

\* The directory the items of a batch are to be saved in
BatchDirectory == IF argsOutputPath = Nothing THEN Cwd ELSE Resolve(argsOutputPath[1])

\* Nothing but a directory is at the output path, and no download() raised
BatchUnhindered ==
    /\ ~removeFailed[Downloader]
    /\ argsOutputPath # Nothing =>
          (Exists(fs, argsOutputPath[1]) => IsDir(fs, argsOutputPath[1]))

\* C15: with several valid URLs, and an output path that ends in '/', one
\* that does not, or none, every valid URL has had its download() call when
\* main() is over, each with the directory as its output path.
C15_EveryUrlOfBatchProcessed ==
    (cliPc = "exit" /\ Len(validUrls) > 1 /\ BatchUnhindered) =>
        /\ AttemptedUrls = validUrls
        /\ \A i \in 1..Len(attempts) :
              /\ attempts[i].output_path # Nothing
              /\ Resolve(attempts[i].output_path[1]) = BatchDirectory
              /\ IsDir(fs, attempts[i].output_path[1])

\* C16: "Finished downloading video i/n" is logged only for an item whose
\* download ended with a fully written file, and "All videos successfully
\* downloaded!" only after a run in which every item did.
C16_SuccessOnlyIfSucceeded ==
    /\ \A i \in 1..Len(validUrls) :
          Msg("finished", <<>>, i) \in cliLogged =>
              i <= Len(attempts) /\ attempts[i].ok
    /\ Msg("all_downloaded", <<>>, 0) \in cliLogged =>
          /\ Len(attempts) = Len(validUrls)
          /\ \A i \in 1..Len(attempts) : attempts[i].ok

\* u has a scheme and a host: a first ':' that is not its first character,
\* "//" after it, and then a character that does not end the host
HasSchemeAndHost(u) ==
    \E k \in 2..Len(u) :
        /\ u[k] = ":"
        /\ \A j \in 1..(k - 1) : u[j] # ":"
        /\ StartsAt(u, k + 1, <<"/", "/">>)
        /\ k + 3 <= Len(u)
        /\ u[k + 3] \notin {"/", "?", "#"}

\* u holds /e/ or /d/
HasSegment(u) ==
    \E k \in 1..Len(u) :
        StartsAt(u, k, <<"/", "e", "/">>) \/ StartsAt(u, k, <<"/", "d", "/">>)

\* The entries of the URL argument
Entries == {Urls(argsUrl)[k] : k \in 1..Len(Urls(argsUrl))}

\* C19: an instance is created, and requests are issued, only for an entry
\* of the argument that has scheme, host and one of the segments; every
\* other entry is warned about and never attempted; and when no entry is
\* valid the run issues no request and changes no file or directory.
C19_OnlyValidUrlsRequested ==
    /\ [](pc[Downloader] # "unused" =>
            /\ url[Downloader] \in Entries
            /\ HasSchemeAndHost(url[Downloader])
            /\ HasSegment(url[Downloader]))
    /\ [](\A p \in Procs : pc[p] = "unused" => requests[p] = <<>>)
    /\ [](cliPc # "start" =>
            \A u \in Entries :
                ~(HasSchemeAndHost(u) /\ HasSegment(u)) =>
                    /\ Msg("ignored", u, 0) \in cliLogged
                    /\ \A k \in 1..Len(attempts) : attempts[k].url # u)
    /\ []((\A u \in Entries : ~(HasSchemeAndHost(u) /\ HasSegment(u))) =>
            \A p \in Procs : pc[p] = "unused")
    /\ [][(\A u \in Entries : ~(HasSchemeAndHost(u) /\ HasSegment(u))) =>
            fs' = fs /\ requests' = requests]_vars

\* Of "h/d/1,https://h/e/2" the first entry was warned about and the second
\* one downloaded, and main() is over.
C19_Witness ==
    /\ cliPc = "exit"
    /\ argsUrl = ArgMixed
    /\ Msg("ignored", <<"h", "/", "d", "/", "1">>, 0) \in cliLogged
    /\ Len(attempts) = 1
    /\ attempts[1].url = UrlEmbed
    /\ attempts[1].ok
    /\ Len(requests[Downloader]) = 3

=============================================================================
